---- MODULE Spec2Model ----
(***************************************************************************)
(* Model of the pixel-sort component src/app/components/P5Sketch.tsx:     *)
(* the React state of the component, the p5 sketch instances it creates,  *)
(* the image-load callbacks, and the chunked sort runs started by         *)
(* startPixelSort and continued by setTimeout(processChunk, 0).           *)
(*                                                                         *)
(* Numbers.  JavaScript numbers are doubles; the sort keys, thresholds and *)
(* progress values are modelled as exact rationals [n, d] in lowest terms  *)
(* with d > 0, plus [n |-> 1, d |-> 0] for +Infinity (produced by the      *)
(* saturation metric's division by zero).  For the pixel values, the       *)
(* thresholds and the intensities drawn below, the double computation and  *)
(* the rational one order all values identically.                          *)
(***************************************************************************)
EXTENDS Integers, Sequences, FiniteSets, TLC

(***************************************************************************)
(* Bounds of the model.                                                    *)
(***************************************************************************)
\* longest scan line of the images the engine-level specification draws
MaxLen == 3
\* number of files the user uploads in the component-level specification
MaxUploads == 2
\* number of sort runs started in the component-level specification
MaxRuns == 2
\* number of rotate clicks in the component-level specification
MaxRotates == 1
\* number of rotate clicks in the rotation specification
MaxTurns == 4
\* length of the rows the noise specification draws
NoiseLen == 4

(***************************************************************************)
(* Program constants.                                                      *)
(***************************************************************************)
\* const chunkSize = 10
chunkSize == 10

(***************************************************************************)
(* Rational arithmetic for the float-valued quantities.                    *)
(***************************************************************************)
Abs(x) == IF x < 0 THEN -x ELSE x

RECURSIVE Gcd(_, _)
Gcd(a, b) == IF b = 0 THEN a ELSE Gcd(b, a % b)

Rat(n, d) ==
  IF d = 0 THEN [n |-> 1, d |-> 0]
  ELSE LET g == Gcd(Abs(n), Abs(d))
           s == IF d < 0 THEN -1 ELSE 1
       IN  [n |-> s * (n \div g), d |-> s * (d \div g)]

RInt(n) == [n |-> n, d |-> 1]
Infinity == [n |-> 1, d |-> 0]
IsFinite(a) == a.d # 0

RLess(a, b) == a.n * b.d < b.n * a.d
RGeq(a, b) == ~RLess(a, b)
RAdd(a, b) == Rat(a.n * b.d + b.n * a.d, a.d * b.d)
RSub(a, b) == Rat(a.n * b.d - b.n * a.d, a.d * b.d)
RAbs(a) == [n |-> Abs(a.n), d |-> a.d]
RDivInt(a, k) == Rat(a.n, a.d * k)

Max2(a, b) == IF a >= b THEN a ELSE b
Min2(a, b) == IF a <= b THEN a ELSE b
Max3(a, b, c) == Max2(a, Max2(b, c))
Min3(a, b, c) == Min2(a, Min2(b, c))

(***************************************************************************)
(* Images.  An image is [w, h, px]: px is the row-major sequence of its    *)
(* RGBA pixels <<r, g, b, a>>; the byte offset idx = 4 * (y * w + x) of    *)
(* the source addresses px[idx \div 4 + 1].                                *)
(***************************************************************************)
PixelAt(img, idx) == img.px[(idx \div 4) + 1]

\* const isHorizontal = Math.abs(sortAngle % 180) === 90
isHorizontal(opts) == Abs(opts.sortAngle % 180) = 90

\* maxLines one short of the number of lines
maxLinesButOne(img, opts) == (IF isHorizontal(opts) THEN img.h ELSE img.w) - 1

\* const maxLines = isHorizontal ? sortedImg.height : sortedImg.width
maxLines(img, opts) == IF isHorizontal(opts) THEN img.h ELSE img.w

\* the bound of the extraction and write-back loops over i
lineLength(img, opts) == IF isHorizontal(opts) THEN img.w ELSE img.h

\* idx of the i-th pixel (from 0) of scan line `line`
lineIdx(img, opts, line, i) ==
  IF isHorizontal(opts) THEN (line * img.w + i) * 4
  ELSE (i * img.w + line) * 4

(***************************************************************************)
(* The sort key of a pixel (the sixth slot pushed onto the pixel tuple).   *)
(***************************************************************************)
brightnessKey(r, g, b) == Rat(r + g + b, 3)

hueKey(r, g, b) ==
  LET max == Max3(r, g, b)
      min == Min3(r, g, b)
      d == max - min
  IN  IF max = min THEN RInt(0)
      ELSE IF max = r THEN Rat(60 * ((g - b) + (IF g < b THEN 6 * d ELSE 0)), d)
      ELSE IF max = g THEN Rat(60 * ((b - r) + 2 * d), d)
      ELSE Rat(60 * ((r - g) + 4 * d), d)

\* l = (max + min) / 2 > 0.5 iff max + min > 1; d / (2 - max - min) is
\* +Infinity when max + min = 2 and negative when max + min > 2
saturationKey(r, g, b) ==
  LET max == Max3(r, g, b)
      min == Min3(r, g, b)
      d == max - min
  IN  IF max = min THEN RInt(0)
      ELSE IF max + min > 1
           THEN (IF 2 - max - min = 0 THEN Infinity
                 ELSE Rat(100 * d, 2 - max - min))
           ELSE Rat(100 * d, max + min)

colorKey(r, g, b) ==
  LET max == Max3(r, g, b)
      min == Min3(r, g, b)
      delta == max - min
  IN  IF delta = 0 THEN RInt(r)
      ELSE RInt((IF max = r THEN 256 * 0 + g
                 ELSE IF max = g THEN 256 * 1 + b
                 ELSE 256 * 2 + r) + delta * 256 * 3)

sortKey(mode, px) ==
  CASE mode = "brightness" -> brightnessKey(px[1], px[2], px[3])
    [] mode = "hue" -> hueKey(px[1], px[2], px[3])
    [] mode = "saturation" -> saturationKey(px[1], px[2], px[3])
    [] mode = "color" -> colorKey(px[1], px[2], px[3])

\* the extracted line with its keys: a sequence of [px, idx, key]
linePixels(img, opts, line) ==
  [k \in 1..lineLength(img, opts) |->
     LET idx == lineIdx(img, opts, line, k - 1)
     IN  [px |-> PixelAt(img, idx), idx |-> idx,
          key |-> sortKey(opts.sortMode, PixelAt(img, idx))]]

(***************************************************************************)
(* Noise reduction: linePixels.forEach rewrites pixel[5] in place from    *)
(* left to right, so the previous pixel's value read at index i is the    *)
(* one already rewritten at index i - 1.                                  *)
(***************************************************************************)
\* Math.abs(a - b) < t; a difference with an infinite operand is Infinity
\* or NaN, never below t
closerThan(a, b, t) ==
  IsFinite(a) /\ IsFinite(b) /\ RLess(RAbs(RSub(a, b)), RInt(t))

RECURSIVE smoothFrom(_, _, _)
smoothFrom(lp, i, t) ==
  IF i >= Len(lp) THEN lp
  ELSE LET cur == lp[i].key
           prev == lp[i - 1].key
           next == lp[i + 1].key
       IN  IF closerThan(cur, prev, t) /\ closerThan(cur, next, t)
           THEN smoothFrom([lp EXCEPT ![i].key =
                              RDivInt(RAdd(RAdd(prev, cur), next), 3)], i + 1, t)
           ELSE smoothFrom(lp, i + 1, t)

noiseReduce(lp, t) == IF t > 0 /\ Len(lp) >= 3 THEN smoothFrom(lp, 2, t) ELSE lp

(***************************************************************************)
(* Threshold filter.                                                      *)
(***************************************************************************)
\* thresholdValue / 2.55
scaledThreshold(threshold) == Rat(threshold * 100, 255)

\* the threshold test with > in place of >=
aboveThresholdStrict(mode, key, threshold) ==
  IF mode = "brightness" \/ mode = "color" THEN RLess(RInt(threshold), key)
  ELSE IF mode = "hue" \/ mode = "saturation"
       THEN RLess(scaledThreshold(threshold), key)
       ELSE FALSE

aboveThreshold(mode, key, threshold) ==
  IF mode = "brightness" \/ mode = "color" THEN RGeq(key, RInt(threshold))
  ELSE IF mode = "hue" \/ mode = "saturation"
       THEN RGeq(key, scaledThreshold(threshold))
       ELSE FALSE

pixelsAboveThreshold(lp, mode, threshold) ==
  LET T(p) == aboveThreshold(mode, p.key, threshold) IN SelectSeq(lp, T)

pixelsBelowThreshold(lp, mode, threshold) ==
  LET T(p) == ~aboveThreshold(mode, p.key, threshold) IN SelectSeq(lp, T)

(***************************************************************************)
(* Section sorting.  Array.prototype.sort is stable; the comparator is    *)
(* valueA - valueB (ascending) or valueB - valueA (descending), and a NaN  *)
(* result (Infinity - Infinity) counts as 0.                              *)
(***************************************************************************)
\* a comparator that also moves a behind an equal b (an unstable sort)
comesAfterOrTied(a, b, dir) ==
  IF dir = "ascending" THEN ~RLess(a.key, b.key) ELSE ~RLess(b.key, a.key)

\* the comparator's result is > 0: a must come after b
comesAfter(a, b, dir) ==
  IF dir = "ascending" THEN RLess(b.key, a.key) ELSE RLess(a.key, b.key)

\* e placed behind every element it does not have to precede
RECURSIVE insertStable(_, _, _)
insertStable(s, e, dir) ==
  IF s = <<>> THEN <<e>>
  ELSE IF comesAfter(s[Len(s)], e, dir)
       THEN Append(insertStable(SubSeq(s, 1, Len(s) - 1), e, dir), s[Len(s)])
       ELSE Append(s, e)

RECURSIVE sortByKey(_, _)
sortByKey(s, dir) ==
  IF s = <<>> THEN <<>>
  ELSE insertStable(sortByKey(SubSeq(s, 1, Len(s) - 1), dir), s[Len(s)], dir)

\* Array.prototype.slice(0, n) and slice(n): a negative n counts from the end
sliceFromStart(s, n) ==
  LET e == IF n < 0 THEN Max2(Len(s) + n, 0) ELSE Min2(n, Len(s))
  IN  SubSeq(s, 1, e)

sliceToEnd(s, n) ==
  LET b == IF n < 0 THEN Max2(Len(s) + n, 0) ELSE Min2(n, Len(s))
  IN  SubSeq(s, b + 1, Len(s))

\* const pixelX = (pixel[4] / 4) % sortedImg.width
pixelX(p, W) == (p.idx \div 4) % W

\* the filter with pixelX <= hi in place of pixelX < hi
pixelsBetweenInclusive(above, W, lo, hi) ==
  LET T(p) == pixelX(p, W) >= lo /\ pixelX(p, W) <= hi IN SelectSeq(above, T)

\* pixelsAboveThreshold.filter(pixelX >= lo && pixelX < hi)
pixelsBetween(above, W, lo, hi) ==
  LET T(p) == pixelX(p, W) >= lo /\ pixelX(p, W) < hi IN SelectSeq(above, T)

\* Math.floor(section.length * (sortIntensity / 100))
pixelsToSort(n, sortIntensity) == (n * sortIntensity) \div 100

\* the intensity test written `sortIntensity && sortIntensity < 100`: 0 is
\* falsy and takes the full-sort branch
sortedSectionFalsyZero(section, opts) ==
  IF opts.sortIntensity # 0 /\ opts.sortIntensity < 100
  THEN LET n == (Len(section) * opts.sortIntensity) \div 100
       IN  sortByKey(sliceFromStart(section, n), opts.sortDirection)
             \o sliceToEnd(section, n)
  ELSE sortByKey(section, opts.sortDirection)

\* what one iteration of the section loop pushes for its window
sortedSection(section, opts) ==
  IF opts.sortIntensity < 100
  THEN LET n == pixelsToSort(Len(section), opts.sortIntensity)
       IN  sortByKey(sliceFromStart(section, n), opts.sortDirection)
             \o sliceToEnd(section, n)
  ELSE sortByKey(section, opts.sortDirection)

\* what one iteration pushes at x: the window, then the unsorted slice
sectionAt(above, opts, W, x) ==
  LET sectionEnd == Min2(x + opts.sortLength, W)
      totalSectionWidth == opts.sortLength + opts.sliceWidth
  IN  sortedSection(pixelsBetween(above, W, x, sectionEnd), opts)
        \o (IF x + opts.sortLength < W
            THEN pixelsBetween(above, W, sectionEnd, x + totalSectionWidth)
            ELSE <<>>)

\* for (let x = 0; x < sortedImg.width; x += totalSectionWidth): the loop
\* ends only if totalSectionWidth > 0
sectionLoopEnds(opts) == opts.sortLength + opts.sliceWidth > 0

RECURSIVE sectionLoop(_, _, _, _)
sectionLoop(above, opts, W, x) ==
  IF x < W
  THEN sectionAt(above, opts, W, x)
         \o sectionLoop(above, opts, W, x + opts.sortLength + opts.sliceWidth)
  ELSE <<>>

sortedSections(above, opts, W) == sectionLoop(above, opts, W, 0)

(***************************************************************************)
(* One scan line: keys, noise reduction, threshold filter, section sort,  *)
(* and the write-back of sortedRow over the line's positions.             *)
(***************************************************************************)
keyedLine(img, opts, line) ==
  noiseReduce(linePixels(img, opts, line), opts.noiseThreshold)

\* the two pushes exchanged: the sorted sections first, then the pixels
\* below the threshold
sortedRowActiveFirst(img, opts, line) ==
  LET lp == keyedLine(img, opts, line)
  IN  sortedSections(pixelsAboveThreshold(lp, opts.sortMode, opts.threshold),
                     opts, img.w)
        \o pixelsBelowThreshold(lp, opts.sortMode, opts.threshold)

sortedRow(img, opts, line) ==
  LET lp == keyedLine(img, opts, line)
  IN  pixelsBelowThreshold(lp, opts.sortMode, opts.threshold)
        \o sortedSections(pixelsAboveThreshold(lp, opts.sortMode, opts.threshold),
                          opts, img.w)

\* for (let i = 0; i < linePixels.length; i++): if (sortedRow[i]) its four
\* channels are written at position i of the line
RECURSIVE writeFrom(_, _, _, _, _)
writeFrom(img, opts, line, row, i) ==
  IF i < lineLength(img, opts)
  THEN writeFrom(IF i + 1 <= Len(row)
                 THEN [img EXCEPT !.px[(lineIdx(img, opts, line, i) \div 4) + 1] =
                                     row[i + 1].px]
                 ELSE img,
                 opts, line, row, i + 1)
  ELSE img

writeBack(img, opts, line, row) == writeFrom(img, opts, line, row, 0)

processLine(img, opts, line) == writeBack(img, opts, line, sortedRow(img, opts, line))

\* for (let line = currentLine; line < endLine; line++): each line reads the
\* buffer as the lines before it left it; `next` names that buffer (a set of
\* one element, so that it is computed once for the lines that follow)
RECURSIVE processLines(_, _, _, _)
processLines(img, opts, line, endLine) ==
  IF line < endLine
  THEN CHOOSE out \in {processLines(next, opts, line + 1, endLine) :
                          next \in {processLine(img, opts, line)}} : TRUE
  ELSE img

(***************************************************************************)
(* handleRotate's pixel loop: dst(h - 1 - y, x) = src(x, y).              *)
(***************************************************************************)
\* the pixel loop without its fourth assignment: alpha keeps createImage's 0
rotatedNoAlpha(src) ==
  LET w == src.h
      h == src.w
  IN  [w |-> w, h |-> h,
       px |-> [k \in 1..(w * h) |->
                 LET dstX == (k - 1) % w
                     dstY == (k - 1) \div w
                     p == src.px[(src.h - 1 - dstX) * src.w + dstY + 1]
                 IN  <<p[1], p[2], p[3], 0>>]]

rotated(src) ==
  LET w == src.h
      h == src.w
  IN  [w |-> w, h |-> h,
       px |-> [k \in 1..(w * h) |->
                 LET dstX == (k - 1) % w
                     dstY == (k - 1) \div w
                     x == dstY
                     y == src.h - 1 - dstX
                 IN  src.px[y * src.w + x + 1]]]

(***************************************************************************)
(* State.                                                                 *)
(***************************************************************************)
VARIABLES
  imageFile,        \* useState: the chosen File, or NoFile
  isSorting,        \* useState
  hasSortedImage,   \* useState
  sortProgress,     \* useState: a rational
  p5Loaded,         \* whether import('p5') has resolved
  pendingSketches,  \* the imageFile each waiting .then callback closed over
  current,          \* p5Instance.current: an index into sketches, 0 for null
  sketches,         \* the p5 instances: [originalImg, sortedImg]
  loads,            \* loadImage calls whose callback has not run: [p, file]
  runs,             \* the startPixelSort closures: sortedImg, currentLine, ...
  hung,             \* a callback entered a loop that never ends
  uploads,          \* files chosen so far
  rotations         \* rotate clicks so far

vars == <<imageFile, isSorting, hasSortedImage, sortProgress, p5Loaded,
          pendingSketches, current, sketches, loads, runs, hung, uploads,
          rotations>>

NoImage == [w |-> 0, h |-> 0, px |-> <<>>]
\* a File: decodes tells whether loadImage succeeds on it, img is what it decodes to
NoFile == [id |-> 0, decodes |-> FALSE, img |-> NoImage]

\* the part of the state startPixelSort and processChunk read and write
World == [runs |-> runs, sketches |-> sketches, isSorting |-> isSorting,
          hasSortedImage |-> hasSortedImage, sortProgress |-> sortProgress,
          hung |-> hung]

SetWorld(W) ==
  /\ runs' = W.runs
  /\ sketches' = W.sketches
  /\ isSorting' = W.isSorting
  /\ hasSortedImage' = W.hasSortedImage
  /\ sortProgress' = W.sortProgress
  /\ hung' = W.hung

(***************************************************************************)
(* processChunk of run r.  The run's image object sortedImg is rewritten  *)
(* in place; p.sortedImg = sortedImg stores the reference, modelled as    *)
(* the run's index.  The state setters called during one callback take    *)
(* effect together when it returns; `published` records, per run, the     *)
(* progress value each of its processChunk calls left in sortProgress.    *)
(***************************************************************************)
\* a chunk of one line instead of chunkSize lines
endLineNextLine(run) ==
  Min2(run.currentLine + 1, maxLines(run.sortedImg, run.opts))

\* const endLine = Math.min(currentLine + chunkSize, maxLines)
endLine(run) ==
  Min2(run.currentLine + chunkSize, maxLines(run.sortedImg, run.opts))

\* const progress = (currentLine / maxLines) * 100
progress(line, total) == Rat(line * 100, total)

\* the chunk's line loop reaches a section loop that never ends
chunkDiverges(run) ==
  /\ run.currentLine < endLine(run)
  /\ ~sectionLoopEnds(run.opts)

processChunk(W, r) ==
  LET run == W.runs[r]
      total == maxLines(run.sortedImg, run.opts)
      last == endLine(run)
      done == ~(last < total)
  IN  IF chunkDiverges(run) THEN [W EXCEPT !.hung = TRUE]
      ELSE [W EXCEPT
              !.runs[r].sortedImg =
                 processLines(run.sortedImg, run.opts, run.currentLine, last),
              !.runs[r].currentLine = last,
              !.runs[r].timer = ~done,
              !.runs[r].published =
                 Append(@, IF done THEN RInt(100) ELSE progress(last, total)),
              !.sketches[run.p].sortedImg = r,
              !.sortProgress = IF done THEN RInt(100) ELSE progress(last, total),
              !.hasSortedImage = IF done THEN TRUE ELSE @,
              !.isSorting = IF done THEN FALSE ELSE @]

\* p.startPixelSort(options) on sketch p
startPixelSort(W, p, opts) ==
  IF W.sketches[p].originalImg = NoImage THEN W
  ELSE LET run == [p |-> p, opts |-> opts,
                   sortedImg |-> W.sketches[p].originalImg,
                   currentLine |-> 0, timer |-> FALSE, published |-> <<>>]
           r == Len(W.runs) + 1
       IN  processChunk([W EXCEPT !.runs = Append(@, run)], r)

(***************************************************************************)
(* Inputs of the component-level specification: the files the user        *)
(* uploads, and the settings the component starts with (the useState      *)
(* defaults; the engine-level specification below varies every setting).  *)
(***************************************************************************)
Gray(v, a) == <<v, v, v, a>>

\* a 21 x 1 strip: 21 columns under the default angle (three chunks);
\* rotated, it is a single column of 21 pixels (one chunk)
Strip ==
  [w |-> 21, h |-> 1,
   px |-> [k \in 1..21 |->
             IF k % 3 = 0 THEN Gray(200 - k, 255)
             ELSE IF k % 3 = 1 THEN <<255, k, 0, 200>>
             ELSE Gray(k, 128)]]

UploadContents ==
  {[decodes |-> TRUE, img |-> Strip], [decodes |-> FALSE, img |-> NoImage]}

UiOptions ==
  { [sortMode |-> "brightness", threshold |-> 127, sortDirection |-> "ascending",
     sortLength |-> 50, noiseThreshold |-> 10, sortIntensity |-> 100,
     sliceWidth |-> 0, sortAngle |-> 0] }

(***************************************************************************)
(* The component's handlers and callbacks.                                *)
(***************************************************************************)
newSketch == [originalImg |-> NoImage, sortedImg |-> 0]

\* handleFileChange, the re-render it causes and the two effects on
\* [imageFile]: the cleanup removes the old sketch (its timers and load
\* callbacks stay scheduled), the first effect asks for a new sketch, the
\* second calls updateWithImage on the sketch that is current at that time;
\* once the p5 module is loaded the .then callback runs before any other event
handleFileChange(content) ==
  LET file == [id |-> uploads + 1, decodes |-> content.decodes, img |-> content.img]
      onOld == IF current # 0 THEN {[p |-> current, file |-> file]} ELSE {}
  IN  /\ ~hung
      /\ uploads < MaxUploads
      /\ uploads' = uploads + 1
      /\ imageFile' = file
      /\ isSorting' = FALSE
      /\ IF p5Loaded
         THEN /\ sketches' = Append(sketches, newSketch)
              /\ current' = Len(sketches) + 1
              /\ loads' = loads \cup onOld
                            \cup {[p |-> Len(sketches) + 1, file |-> file]}
              /\ UNCHANGED pendingSketches
         ELSE /\ pendingSketches' = Append(pendingSketches, file)
              /\ loads' = loads \cup onOld
              /\ UNCHANGED <<sketches, current>>
      /\ UNCHANGED <<hasSortedImage, sortProgress, p5Loaded, runs, hung, rotations>>

\* import('p5') resolves: every waiting .then callback creates its sketch,
\* stores it in p5Instance.current and loads the file it closed over
p5ModuleLoaded ==
  LET n == Len(pendingSketches)
      base == Len(sketches)
  IN  /\ ~hung
      /\ ~p5Loaded
      /\ p5Loaded' = TRUE
      /\ sketches' = sketches \o [k \in 1..n |-> newSketch]
      /\ current' = IF n > 0 THEN base + n ELSE current
      /\ loads' = loads \cup {[p |-> base + k, file |-> pendingSketches[k]] :
                                k \in {j \in 1..n : pendingSketches[j] # NoFile}}
      /\ pendingSketches' = <<>>
      /\ UNCHANGED <<imageFile, isSorting, hasSortedImage, sortProgress, runs,
                     hung, uploads, rotations>>

\* updateWithImage's success callback
imageLoaded(l) ==
  /\ ~hung
  /\ l \in loads
  /\ l.file.decodes
  /\ loads' = loads \ {l}
  /\ sketches' = [sketches EXCEPT ![l.p].originalImg = l.file.img,
                                  ![l.p].sortedImg = 0]
  /\ UNCHANGED <<imageFile, isSorting, hasSortedImage, sortProgress, p5Loaded,
                 pendingSketches, current, runs, hung, uploads, rotations>>

\* updateWithImage's failure callback: console.error only
imageLoadError(l) ==
  /\ ~hung
  /\ l \in loads
  /\ ~l.file.decodes
  /\ loads' = loads \ {l}
  /\ UNCHANGED <<imageFile, isSorting, hasSortedImage, sortProgress, p5Loaded,
                 pendingSketches, current, sketches, runs, hung, uploads,
                 rotations>>

\* the Pixel Sort and Rotate buttons: disabled={!imageFile || isSorting}
buttonsEnabled == imageFile # NoFile /\ ~isSorting

\* handlePixelSortClick, with the first processChunk it runs synchronously
handlePixelSortClick(opts) ==
  /\ ~hung
  /\ buttonsEnabled
  /\ Len(runs) < MaxRuns
  /\ IF imageFile = NoFile \/ current = 0
     THEN UNCHANGED <<runs, sketches, isSorting, hasSortedImage, sortProgress, hung>>
     ELSE SetWorld(startPixelSort(
            [World EXCEPT !.isSorting = TRUE,
                          !.hasSortedImage = FALSE,
                          !.sortProgress = RInt(0),
                          !.sketches[current].sortedImg = 0],
            current, opts))
  /\ UNCHANGED <<imageFile, p5Loaded, pendingSketches, current, loads, uploads,
                 rotations>>

\* setTimeout(processChunk, 0) of run r fires
processChunkTimer(r) ==
  /\ ~hung
  /\ r \in 1..Len(runs)
  /\ runs[r].timer
  /\ SetWorld(processChunk(World, r))
  /\ UNCHANGED <<imageFile, p5Loaded, pendingSketches, current, loads, uploads,
                 rotations>>

\* handleRotate
handleRotate ==
  /\ ~hung
  /\ buttonsEnabled
  /\ rotations < MaxRotates
  /\ rotations' = rotations + 1
  /\ IF current # 0 /\ sketches[current].originalImg # NoImage
     THEN sketches' = [sketches EXCEPT
                         ![current].originalImg = rotated(@),
                         ![current].sortedImg = 0]
     ELSE UNCHANGED sketches
  /\ UNCHANGED <<imageFile, isSorting, hasSortedImage, sortProgress, p5Loaded,
                 pendingSketches, current, loads, runs, hung, uploads>>

(***************************************************************************)
(* The component: mounted with no file; the first effect has asked for    *)
(* the p5 module.                                                         *)
(***************************************************************************)
Init ==
  /\ imageFile = NoFile
  /\ isSorting = FALSE
  /\ hasSortedImage = FALSE
  /\ sortProgress = RInt(0)
  /\ p5Loaded = FALSE
  /\ pendingSketches = <<NoFile>>
  /\ current = 0
  /\ sketches = <<>>
  /\ loads = {}
  /\ runs = <<>>
  /\ hung = FALSE
  /\ uploads = 0
  /\ rotations = 0

Next ==
  \/ \E c \in UploadContents : handleFileChange(c)
  \/ p5ModuleLoaded
  \/ \E l \in loads : imageLoaded(l)
  \/ \E l \in loads : imageLoadError(l)
  \/ \E o \in UiOptions : handlePixelSortClick(o)
  \/ \E r \in 1..Len(runs) : processChunkTimer(r)
  \/ handleRotate

Spec == Init /\ [][Next]_vars

\* the component with its scheduled callbacks eventually run: every pending
\* setTimeout(processChunk, 0), every loadImage callback and the import('p5')
\* promise; the user's clicks and uploads are under no obligation
SpecFair ==
  /\ Init /\ [][Next]_vars
  /\ \A r \in 1..MaxRuns : WF_vars(processChunkTimer(r))
  /\ WF_vars(\E l \in loads : imageLoaded(l))
  /\ WF_vars(\E l \in loads : imageLoadError(l))
  /\ WF_vars(p5ModuleLoaded)

(***************************************************************************)
(* Engine-level specification: p.startPixelSort(options) called on a      *)
(* sketch that holds a loaded image, for every small image and every      *)
(* options record of the sets below; the sets include the values the      *)
(* sliders cannot produce (short sections, and the invalid ones).         *)
(***************************************************************************)
\* two grays (equal hue and saturation keys, different brightness) and a
\* dark colour whose saturation key is +Infinity
EnginePixels == {<<10, 10, 10, 255>>, <<200, 200, 200, 128>>, <<2, 0, 1, 64>>}

\* every shape with sides up to MaxLen and at most MaxLen + 1 pixels
EngineDims == {d \in (1..MaxLen) \X (1..MaxLen) : d[1] * d[2] <= MaxLen + 1}

EngineImages ==
  UNION {{[w |-> d[1], h |-> d[2], px |-> s] :
            s \in [1..(d[1] * d[2]) -> EnginePixels]} : d \in EngineDims}

SortModes == {"brightness", "hue", "saturation", "color"}
SortDirections == {"ascending", "descending"}

\* every combination of the settings without noise reduction
QuietOptions ==
  [sortMode : SortModes, threshold : {0, 10}, sortDirection : SortDirections,
   sortLength : {1, 2, MaxLen}, noiseThreshold : {0},
   sortIntensity : {0, 50, 100}, sliceWidth : {0, 1}, sortAngle : {0, 90}]

\* noise reduction on: it rewrites the keys of lines of three or more pixels
NoisyOptions ==
  [sortMode : SortModes, threshold : {0, 10}, sortDirection : SortDirections,
   sortLength : {1, MaxLen}, noiseThreshold : {50},
   sortIntensity : {0, 100}, sliceWidth : {0}, sortAngle : {0, 90}]

ValidOptions == QuietOptions \cup NoisyOptions

\* values no slider produces: startPixelSort takes them as they come
OddOptions ==
  [sortMode : {"brightness"}, threshold : {-1, 10}, sortDirection : {"ascending"},
   sortLength : {-1, 0, 1}, noiseThreshold : {0},
   sortIntensity : {-50, 100}, sliceWidth : {-1, 0, 1}, sortAngle : {90}]

EngineOptions == ValidOptions \cup OddOptions

engineStart(opts) ==
  /\ ~hung
  /\ runs = <<>>
  /\ SetWorld(startPixelSort(World, current, opts))
  /\ UNCHANGED <<imageFile, p5Loaded, pendingSketches, current, loads, uploads,
                 rotations>>

InitEngine ==
  /\ \E img \in EngineImages :
       /\ imageFile = [id |-> 1, decodes |-> TRUE, img |-> img]
       /\ sketches = <<[originalImg |-> img, sortedImg |-> 0]>>
  /\ isSorting = FALSE
  /\ hasSortedImage = FALSE
  /\ sortProgress = RInt(0)
  /\ p5Loaded = TRUE
  /\ pendingSketches = <<>>
  /\ current = 1
  /\ loads = {}
  /\ runs = <<>>
  /\ hung = FALSE
  /\ uploads = 1
  /\ rotations = 0

NextEngine == runs = <<>> /\ \E o \in EngineOptions : engineStart(o)

SpecEngine == InitEngine /\ [][NextEngine]_vars

(***************************************************************************)
(* Noise specification: p.startPixelSort(options) with noise reduction on  *)
(* one row of NoiseLen gray pixels (rows long enough to have two adjacent  *)
(* interior pixels), for every such row over a few gray levels.            *)
(***************************************************************************)
NoiseLevels == {0, 3, 6, 30}

NoiseImages ==
  {[w |-> NoiseLen, h |-> 1, px |-> [k \in 1..NoiseLen |-> Gray(s[k], 255)]] :
     s \in [1..NoiseLen -> NoiseLevels]}

NoiseOptions ==
  [sortMode : {"brightness"}, threshold : {0}, sortDirection : {"ascending"},
   sortLength : {NoiseLen}, noiseThreshold : {5, 50},
   sortIntensity : {100}, sliceWidth : {0}, sortAngle : {0, 90}]

InitNoise ==
  /\ \E img \in NoiseImages :
       /\ imageFile = [id |-> 1, decodes |-> TRUE, img |-> img]
       /\ sketches = <<[originalImg |-> img, sortedImg |-> 0]>>
  /\ isSorting = FALSE
  /\ hasSortedImage = FALSE
  /\ sortProgress = RInt(0)
  /\ p5Loaded = TRUE
  /\ pendingSketches = <<>>
  /\ current = 1
  /\ loads = {}
  /\ runs = <<>>
  /\ hung = FALSE
  /\ uploads = 1
  /\ rotations = 0

NextNoise == runs = <<>> /\ \E o \in NoiseOptions : engineStart(o)

SpecNoise == InitNoise /\ [][NextNoise]_vars

(***************************************************************************)
(* Rotation specification: the Rotate button clicked up to MaxTurns times  *)
(* on a sketch that holds a loaded image, for every small image.           *)
(***************************************************************************)
rotateClick ==
  /\ ~hung
  /\ buttonsEnabled
  /\ rotations < MaxTurns
  /\ rotations' = rotations + 1
  /\ IF current # 0 /\ sketches[current].originalImg # NoImage
     THEN sketches' = [sketches EXCEPT
                         ![current].originalImg = rotated(@),
                         ![current].sortedImg = 0]
     ELSE UNCHANGED sketches
  /\ UNCHANGED <<imageFile, isSorting, hasSortedImage, sortProgress, p5Loaded,
                 pendingSketches, current, loads, runs, hung, uploads>>

NextRotate == rotateClick

SpecRotate == InitEngine /\ [][NextRotate]_vars

(***************************************************************************)
(* Vocabulary of the properties.                                          *)
(***************************************************************************)
Runs == 1..Len(runs)

\* the image a run copied when it started (no rotation or reload in between)
sourceOf(run) == sketches[run.p].originalImg

\* the RGBA values along scan line `line` of img, in traversal order
colorsOfLine(img, opts, line) ==
  [k \in 1..lineLength(img, opts) |-> PixelAt(img, lineIdx(img, opts, line, k - 1))]

Count(s, v) == Cardinality({i \in DOMAIN s : s[i] = v})

SameMultiset(s, t) ==
  /\ Len(s) = Len(t)
  /\ \A i \in DOMAIN s : Count(s, s[i]) = Count(t, s[i])

\* the scan lines a run has processed so far
linesDone(run) == 0..(run.currentLine - 1)

\* the number of scan lines of a run's image: its columns, or its rows when
\* the angle is 90
scanLines(run) ==
  IF run.opts.sortAngle = 90 THEN run.sortedImg.h ELSE run.sortedImg.w

\* the samples of a line as the threshold filter sees them
samples(run, line) == keyedLine(sourceOf(run), run.opts, line)

active(run, line) ==
  pixelsAboveThreshold(samples(run, line), run.opts.sortMode, run.opts.threshold)

inactive(run, line) ==
  pixelsBelowThreshold(samples(run, line), run.opts.sortMode, run.opts.threshold)

\* the mode's threshold test as the specification words it
passesThreshold(mode, key, t) ==
  IF mode \in {"brightness", "color"} THEN key.n >= t * key.d \/ key.d = 0
  ELSE key.d = 0 \/ key.n * 255 >= t * 100 * key.d

InLineOrder(s) == \A i, j \in DOMAIN s : i < j => s[i].idx < s[j].idx

Range(s) == {s[i] : i \in DOMAIN s}

\* out is s sorted by key in direction dir, equal keys in line order
IsStableSortOf(out, s, dir) ==
  /\ Len(out) = Len(s)
  /\ Range(out) = Range(s)
  /\ \A i, j \in DOMAIN out :
       i < j =>
         /\ IF dir = "ascending" THEN ~RLess(out[j].key, out[i].key)
            ELSE ~RLess(out[i].key, out[j].key)
         /\ (~RLess(out[i].key, out[j].key) /\ ~RLess(out[j].key, out[i].key))
              => out[i].idx < out[j].idx

(***************************************************************************)
(* C1.  With sortLength >= 1 and sliceWidth >= 0, every scan line a run   *)
(* has processed holds the same multiset of RGBA values in the working    *)
(* buffer as in the source image: sorting a line permutes its pixels.     *)
(***************************************************************************)
C1_LinePermutation ==
  \A r \in Runs :
    (runs[r].opts.sortLength >= 1 /\ runs[r].opts.sliceWidth >= 0) =>
      \A line \in linesDone(runs[r]) :
        SameMultiset(colorsOfLine(runs[r].sortedImg, runs[r].opts, line),
                     colorsOfLine(sourceOf(runs[r]), runs[r].opts, line))

\* a run has reordered a line of three different colours
C1_Witness ==
  \E r \in Runs :
    /\ runs[r].opts.sortLength >= 1 /\ runs[r].opts.sliceWidth >= 0
    /\ \E line \in linesDone(runs[r]) :
         LET got == colorsOfLine(runs[r].sortedImg, runs[r].opts, line)
             src == colorsOfLine(sourceOf(runs[r]), runs[r].opts, line)
         IN  got # src /\ Cardinality(Range(src)) = 3

C9_FullStableSort ==
  \A r \in Runs :
    LET o == runs[r].opts
        src == sourceOf(runs[r])
    IN  (o.sortIntensity = 100 /\ o.sliceWidth = 0
           /\ o.sortLength >= lineLength(src, o)) =>
          \A line \in linesDone(runs[r]) :
            LET A == active(runs[r], line)
            IN  IsStableSortOf(sortedSections(A, o, src.w), A, o.sortDirection)

\* such a run moved samples of a line that holds two different samples
\* with equal keys
C9_Witness ==
  \E r \in Runs :
    LET o == runs[r].opts
        src == sourceOf(runs[r])
    IN  /\ o.sortIntensity = 100 /\ o.sliceWidth = 0
        /\ o.sortLength >= lineLength(src, o)
        /\ \E line \in linesDone(runs[r]) :
             LET A == active(runs[r], line)
             IN  /\ sortedSections(A, o, src.w) # A
                 /\ \E i, j \in DOMAIN A :
                      i < j /\ A[i].key = A[j].key /\ A[i].px # A[j].px

(***************************************************************************)
(* C10.  With sortIntensity = 0 (sortLength >= 1, sliceWidth >= 0) the    *)
(* section sorter's output is the active set in its original line order,  *)
(* for both directions.                                                   *)
(***************************************************************************)
C10_ZeroIntensityKeepsOrder ==
  \A r \in Runs :
    LET o == runs[r].opts
    IN  (o.sortIntensity = 0 /\ o.sortLength >= 1 /\ o.sliceWidth >= 0) =>
          \A line \in linesDone(runs[r]) :
            LET A == active(runs[r], line)
            IN  sortedSections(A, o, sourceOf(runs[r]).w) = A

\* such a run on a line cut into several windows whose active set is not
\* in key order
C10_Witness ==
  \E r \in Runs :
    LET o == runs[r].opts
    IN  /\ o.sortIntensity = 0 /\ o.sortLength = 1 /\ o.sliceWidth = 1
        /\ o.sortAngle = 90
        /\ \E line \in linesDone(runs[r]) :
             LET A == active(runs[r], line)
             IN  Len(A) = 3 /\ sortByKey(A, o.sortDirection) # A

(***************************************************************************)
(* C2.  Only the most recently started run executes chunk steps: a run    *)
(* that was Running when a newer run started executes no further step.    *)
(***************************************************************************)
C2_OnlyLatestRunSteps ==
  [][\A r \in Runs : processChunkTimer(r) => r = Len(runs)]_vars

(***************************************************************************)
(* C3.  The published progress lies in 0..100 and no chunk step of a run  *)
(* lowers it.                                                             *)
(***************************************************************************)
C3_ProgressMonotone ==
  [][/\ RGeq(sortProgress', RInt(0)) /\ RGeq(RInt(100), sortProgress')
     /\ (\E r \in Runs : processChunkTimer(r)) => RGeq(sortProgress', sortProgress)]_vars

(***************************************************************************)
(* C4.  A run over N scan lines publishes one progress value per chunk of *)
(* chunkSize lines, each at least the one before; when it has run to      *)
(* completion it has published exactly ceil(N / chunkSize) values, the    *)
(* last one is 100, and it has no further step scheduled.                 *)
(***************************************************************************)
CeilDiv(a, b) == (a + b - 1) \div b

C4_ProgressUpdates ==
  \A r \in Runs :
    LET run == runs[r]
        N == scanLines(run)
        pub == run.published
    IN  /\ Len(pub) = CeilDiv(run.currentLine, chunkSize)
        /\ \A i \in 1..(Len(pub) - 1) : RGeq(pub[i + 1], pub[i])
        /\ run.timer => run.currentLine < N /\ RLess(pub[Len(pub)], RInt(100))
        /\ ~run.timer =>
             /\ run.currentLine = N
             /\ Len(pub) = CeilDiv(N, chunkSize)
             /\ pub[Len(pub)] = RInt(100)

\* a run over 21 scan lines has finished after three updates
C4_Witness ==
  \E r \in Runs :
    /\ ~runs[r].timer
    /\ scanLines(runs[r]) = 21
    /\ Len(runs[r].published) = 3
    /\ RLess(runs[r].published[1], runs[r].published[2])

(***************************************************************************)
(* C5.  When the progress is 100 and the run is marked complete, the      *)
(* published sorted image has had every scan line processed and no chunk  *)
(* step is still to write to it.                                          *)
(***************************************************************************)
markedComplete == hasSortedImage /\ ~isSorting /\ sortProgress = RInt(100)

C5_CompleteBufferStable ==
  (markedComplete /\ current # 0 /\ sketches[current].sortedImg # 0) =>
    LET run == runs[sketches[current].sortedImg]
    IN  run.currentLine = scanLines(run) /\ ~run.timer

(***************************************************************************)
(* C6.  A start request with an invalid configuration (sortLength <= 0,   *)
(* negative threshold or intensity) is rejected: no run is created, no    *)
(* section loop is entered, and none is entered that never ends.          *)
(***************************************************************************)
invalidConfig(opts) ==
  opts.sortLength <= 0 \/ opts.threshold < 0 \/ opts.sortIntensity < 0

C6_InvalidConfigRejected ==
  /\ ~hung
  /\ \A r \in Runs : ~invalidConfig(runs[r].opts)

(***************************************************************************)
(* C7.  A sort click while the current sketch holds no decoded image      *)
(* changes nothing: no run starts, and the sorted image, isSorting,       *)
(* hasSortedImage and sortProgress keep their values.                     *)
(***************************************************************************)
noDecodedImage == current = 0 \/ sketches[current].originalImg = NoImage

C7_SortWithoutImageNoOp ==
  [][(noDecodedImage /\ \E o \in UiOptions : handlePixelSortClick(o)) =>
       UNCHANGED <<runs, sketches, isSorting, hasSortedImage, sortProgress>>]_vars

(***************************************************************************)
(* C11.  Each rotation of a w x h image yields an h x w image, and four    *)
(* rotations in a row give back the original dimensions and the original   *)
(* RGBA value at every pixel.                                              *)
(***************************************************************************)
\* the image the sketch was loaded with
loadedImage == imageFile.img

C11_FourRotationsIdentity ==
  LET img == sketches[current].originalImg
      src == loadedImage
  IN  /\ rotations % 2 = 1 => img.w = src.h /\ img.h = src.w
      /\ rotations % 2 = 0 => img.w = src.w /\ img.h = src.h
      /\ Len(img.px) = img.w * img.h
      /\ rotations = 4 => img = src

\* four rotations of a non-square image of three different colours, whose
\* first rotation moved the colours
C11_Witness ==
  /\ rotations = 4
  /\ loadedImage.w # loadedImage.h
  /\ Cardinality(Range(loadedImage.px)) = 3
  /\ rotated(loadedImage).px # loadedImage.px

(***************************************************************************)
(* C12.  In saturation mode the key computed for every pixel lies in      *)
(* 0..100 (never negative, never above 100).                               *)
(***************************************************************************)
C12_SaturationKeyRange ==
  \A r \in Runs :
    runs[r].opts.sortMode = "saturation" =>
      \A line \in linesDone(runs[r]) :
        LET lp == linePixels(sourceOf(runs[r]), runs[r].opts, line)
        IN  \A i \in DOMAIN lp :
              /\ IsFinite(lp[i].key)
              /\ RGeq(lp[i].key, RInt(0))
              /\ RGeq(RInt(100), lp[i].key)

(***************************************************************************)
(* C13.  Noise smoothing with threshold t > 0 is one non-cascaded pass:    *)
(* every interior key becomes the mean of itself and its two neighbours'   *)
(* keys before smoothing iff it differs from both of them by less than t,  *)
(* and stays as it is otherwise; the first and last keys never change.     *)
(***************************************************************************)
\* the pass as the claim words it, from the keys before smoothing
singlePassKey(old, i, t) ==
  IF i > 1 /\ i < Len(old)
     /\ closerThan(old[i].key, old[i - 1].key, t)
     /\ closerThan(old[i].key, old[i + 1].key, t)
  THEN RDivInt(RAdd(RAdd(old[i - 1].key, old[i].key), old[i + 1].key), 3)
  ELSE old[i].key

C13_NoiseSinglePass ==
  \A r \in Runs :
    runs[r].opts.noiseThreshold > 0 =>
      \A line \in linesDone(runs[r]) :
        LET old == linePixels(sourceOf(runs[r]), runs[r].opts, line)
            new == keyedLine(sourceOf(runs[r]), runs[r].opts, line)
        IN  /\ Len(new) = Len(old)
            /\ \A i \in DOMAIN old :
                 new[i].key = singlePassKey(old, i, runs[r].opts.noiseThreshold)

(***************************************************************************)
(* C14.  The number of scan lines a run processes is the image height     *)
(* when it scans columns (Vertical) and the image width when it scans     *)
(* rows (Horizontal).                                                      *)
(***************************************************************************)
\* a run that has processed all its lines and stopped
finished(run) == ~hung /\ ~run.timer /\ run.published # <<>>

\* the run walks the image column by column
scansColumns(run) == run.opts.sortAngle # 90

C14_TotalLinesAsClaimed ==
  \A r \in Runs :
    finished(runs[r]) =>
      runs[r].currentLine = IF scansColumns(runs[r]) THEN runs[r].sortedImg.h
                            ELSE runs[r].sortedImg.w

(***************************************************************************)
(* C14, amended.  The number of scan lines a run processes is the image   *)
(* width when it scans columns and the image height when it scans rows:   *)
(* the number of columns, respectively rows, of the image.                 *)
(***************************************************************************)
C14_TotalLinesByOrientation ==
  \A r \in Runs :
    finished(runs[r]) =>
      runs[r].currentLine = IF scansColumns(runs[r]) THEN runs[r].sortedImg.w
                            ELSE runs[r].sortedImg.h

\* a finished column scan of an image with more columns than rows
C14_Witness ==
  \E r \in Runs :
    /\ finished(runs[r])
    /\ scansColumns(runs[r])
    /\ runs[r].sortedImg.w > runs[r].sortedImg.h
    /\ runs[r].currentLine = runs[r].sortedImg.w

(***************************************************************************)
(* C15.  In both orientations the section sorter windows the active set   *)
(* by position along the scan line (column index in a row, row index in   *)
(* a column): walking x = 0, L+G, 2(L+G), ... while x < lineLength, the    *)
(* window at x holds the active samples at positions in                   *)
(* [x, min(x+L, lineLength)) and the gap stripe those at positions in     *)
(* [min(x+L, lineLength), x+L+G).                                          *)
(***************************************************************************)
\* position of a sample along its scan line
alongLine(p, run) ==
  IF scansColumns(run) THEN (p.idx \div 4) \div run.sortedImg.w
  ELSE (p.idx \div 4) % run.sortedImg.w

positionsBetween(above, run, lo, hi) ==
  LET T(p) == alongLine(p, run) >= lo /\ alongLine(p, run) < hi
  IN  SelectSeq(above, T)

RECURSIVE windowsAlongLine(_, _, _)
windowsAlongLine(above, run, x) ==
  LET L == run.opts.sortLength
      G == run.opts.sliceWidth
      len == lineLength(run.sortedImg, run.opts)
      windowEnd == Min2(x + L, len)
  IN  IF x < len
      THEN sortedSection(positionsBetween(above, run, x, windowEnd), run.opts)
             \o positionsBetween(above, run, windowEnd, x + L + G)
             \o windowsAlongLine(above, run, x + L + G)
      ELSE <<>>

C15_WindowsAlongLine ==
  \A r \in Runs :
    (runs[r].opts.sortLength >= 1 /\ runs[r].opts.sliceWidth >= 0) =>
      \A line \in linesDone(runs[r]) :
        sortedSections(active(runs[r], line), runs[r].opts, sourceOf(runs[r]).w)
          = windowsAlongLine(active(runs[r], line), runs[r], 0)

(***************************************************************************)
(* C16.  After a scan line is processed, position i of the line in the    *)
(* working buffer holds the RGBA value of the i-th element of             *)
(* inactive ++ sectionSorterOutput (the inactive pixels first, in their   *)
(* original order, then the windowed results of the active ones), and     *)
(* nothing outside the line is written.  The brightness row               *)
(* 10, 200, 50, 220 with threshold 127.5, intensity 50, sortLength 4,      *)
(* sliceWidth 0, ascending becomes 10, 50, 200, 220.                       *)
(***************************************************************************)
\* the sequence the claim names, for a line of the run's source image
inactiveThenSorted(run, line) ==
  LET lp == samples(run, line)
  IN  pixelsBelowThreshold(lp, run.opts.sortMode, run.opts.threshold)
        \o sortedSections(
              pixelsAboveThreshold(lp, run.opts.sortMode, run.opts.threshold),
              run.opts, sourceOf(run).w)

\* the claim's example; the threshold slider is integer-valued and no key
\* of the row lies between 127 and 128
ExampleRow ==
  [w |-> 4, h |-> 1,
   px |-> <<Gray(10, 255), Gray(200, 255), Gray(50, 255), Gray(220, 255)>>]

ExampleOptions ==
  [sortMode |-> "brightness", threshold |-> 128, sortDirection |-> "ascending",
   sortLength |-> 4, noiseThreshold |-> 0, sortIntensity |-> 50,
   sliceWidth |-> 0, sortAngle |-> 90]

\* the example row after its line is processed
ExampleResult ==
  colorsOfLine(processLine(ExampleRow, ExampleOptions, 0), ExampleOptions, 0)

\* the lines of a run's image that it has not processed yet
linesAhead(run) ==
  run.currentLine..(maxLines(run.sortedImg, run.opts) - 1)

C16_WriteBackOrder ==
  /\ \A r \in Runs :
       (~hung /\ runs[r].opts.sortLength >= 1 /\ runs[r].opts.sliceWidth >= 0) =>
         /\ \A line \in linesDone(runs[r]) :
              LET got == colorsOfLine(runs[r].sortedImg, runs[r].opts, line)
                  want == inactiveThenSorted(runs[r], line)
              IN  /\ Len(want) = Len(got)
                  /\ \A i \in DOMAIN got : got[i] = want[i].px
         /\ \A line \in linesAhead(runs[r]) :
              colorsOfLine(runs[r].sortedImg, runs[r].opts, line)
                = colorsOfLine(sourceOf(runs[r]), runs[r].opts, line)
  /\ ExampleResult = <<Gray(10, 255), Gray(50, 255), Gray(200, 255), Gray(220, 255)>>

\* a processed line of an image of several lines whose first pixel was
\* active and which holds an inactive pixel: the inactive one moved to
\* the front
C16_Witness ==
  \E r \in Runs :
    /\ runs[r].opts.sortLength >= 1 /\ runs[r].opts.sliceWidth >= 0
    /\ maxLines(sourceOf(runs[r]), runs[r].opts) > 1
    /\ \E line \in linesDone(runs[r]) :
         LET lp == samples(runs[r], line)
         IN  /\ Len(inactive(runs[r], line)) >= 1
             /\ Len(active(runs[r], line)) >= 1
             /\ lp[1] = active(runs[r], line)[1]
             /\ colorsOfLine(runs[r].sortedImg, runs[r].opts, line)[1]
                  = inactive(runs[r], line)[1].px

(***************************************************************************)
(* C17.  Whenever hasSortedImage is true (Download enabled), the current  *)
(* sketch has a sorted image, and it is the fully processed result of a   *)
(* completed run over the currently loaded original image.                *)
(***************************************************************************)
C17_SortedImageWhenFlagged ==
  hasSortedImage =>
    /\ current # 0
    /\ sketches[current].sortedImg # 0
    /\ LET run == runs[sketches[current].sortedImg]
           orig == sketches[current].originalImg
       IN  /\ ~run.timer
           /\ run.currentLine = scanLines(run)
           /\ run.sortedImg =
                processLines(orig, run.opts, 0, maxLines(orig, run.opts))

(***************************************************************************)
(* C18.  Whenever isSorting is true it eventually becomes false again,    *)
(* provided the pending chunk timers and image-load callbacks are         *)
(* eventually executed: the buttons never stay disabled forever.          *)
(***************************************************************************)
C18_SortingEventuallyEnds == isSorting ~> ~isSorting

====
